---- MODULE Spec2Model ----
(***************************************************************************)
(* cdl_to_info.py: converts an FCEUX Code/Data Log of a NES PRG-ROM into   *)
(* LABEL/RANGE lines of a disassembler info file.                          *)
(*                                                                         *)
(* One invocation of main() is the chain Main_Read, Main_Decode,           *)
(* Main_Blocks, Main_InfoLines, Main_Print, Main_Exit.  Invocations are    *)
(* sequential; `pending` holds the inputs of the invocations still to run  *)
(* and `history` the outcome of the finished ones.                         *)
(*                                                                         *)
(* A CDL file is kept in the state as a list of runs (byte, count); the    *)
(* code never sees that form: Main_Blocks expands it to the byte sequence  *)
(* that cdl_file.read() returns before slicing and grouping.               *)
(***************************************************************************)
EXTENDS Integers, Sequences, FiniteSets

VARIABLES pending, pc, ines, cdl, ines_header, cdl_blocks, info_lines,
          stdout, error, history

vars == <<pending, pc, ines, cdl, ines_header, cdl_blocks, info_lines,
          stdout, error, history>>

(***************************************************************************)
(* Bounds of the explored inputs.                                          *)
(***************************************************************************)
MaxLen == 3            \* longest CDL file written byte by byte
MaxTail == 2           \* bytes following the long run of a bank-sized CDL file

(***************************************************************************)
(* Constants of the program.                                               *)
(***************************************************************************)
PRG_DATA == 2
PRG_CODE == 1
PRG_CODE_OR_DATA == 3
KB == 2 ^ 10
INES_HEADER_LENGTH == 16
ByteMax == 255
AddressBase == 49152   \* 0xC000

Mirroring_HORIZONTAL == "Horizontal"
Mirroring_VERTICAL == "Vertical"
Mirroring_FOUR_SCREEN == "Four Screen"

CdlByteType_CODE == "Code"
CdlByteType_DATA == "Data"
CdlByteType_UNACCESSED == "Unaccessed"

Byte == 0 .. ByteMax

(***************************************************************************)
(* Python's operators on non-negative integers.                            *)
(***************************************************************************)
RECURSIVE BitAnd(_, _)
BitAnd(a, b) ==
    IF a = 0 \/ b = 0 THEN 0
    ELSE (IF a % 2 = 1 /\ b % 2 = 1 THEN 1 ELSE 0) + 2 * BitAnd(a \div 2, b \div 2)

RECURSIVE BitOr(_, _)
BitOr(a, b) ==
    IF a = 0 THEN b
    ELSE IF b = 0 THEN a
    ELSE (IF a % 2 = 1 \/ b % 2 = 1 THEN 1 ELSE 0) + 2 * BitOr(a \div 2, b \div 2)

ShiftRight(a, n) == a \div (2 ^ n)

\* bool(x) * k
BoolTimes(x, k) == IF x # 0 THEN k ELSE 0

\* file.read(n): at most n bytes of the file
ReadUpTo(file, n) == SubSeq(file, 1, IF n < Len(file) THEN n ELSE Len(file))

\* the slice left out: the whole sequence is handed on
SliceTo_Whole(seq, n) == seq

\* seq[:n] for n >= 0
SliceTo(seq, n) == SubSeq(seq, 1, IF n < Len(seq) THEN n ELSE Len(seq))

(***************************************************************************)
(* ines_header_decode.  The header is the byte sequence read from the      *)
(* iNES file; struct.unpack("4s4B8x") accepts exactly 16 bytes.            *)
(***************************************************************************)
UnpackOk(ines_bytes) == Len(ines_bytes) = INES_HEADER_LENGTH

\* the size byte used as it is, 0 included
prg_size_bytes_of_NoWrap(prg_size_16kb) == prg_size_16kb * 16 * KB

prg_size_bytes_of(prg_size_16kb) ==
    (IF prg_size_16kb = 0 THEN 256 ELSE prg_size_16kb) * 16 * KB

\* the vertical bit tested before the four-screen bit
mirroring_of_VerticalFirst(flags6) ==
    IF BitAnd(flags6, 1) # 0 THEN Mirroring_VERTICAL
    ELSE IF BitAnd(flags6, 8) # 0 THEN Mirroring_FOUR_SCREEN
    ELSE Mirroring_HORIZONTAL

mirroring_of(flags6) ==
    IF BitAnd(flags6, 8) # 0 THEN Mirroring_FOUR_SCREEN
    ELSE IF BitAnd(flags6, 1) # 0 THEN Mirroring_VERTICAL
    ELSE Mirroring_HORIZONTAL

ines_header_decode(ines_bytes) ==
    LET prg_size_16kb == ines_bytes[5]
        chr_size_8kb == ines_bytes[6]
        flags6 == ines_bytes[7]
        flags7 == ines_bytes[8]
        trainer_size_bytes == BoolTimes(BitAnd(flags6, 4), 512)
    IN  [trainer_start |-> 16,
         trainer_size_bytes |-> trainer_size_bytes,
         prg_start |-> 16 + trainer_size_bytes,
         prg_size_bytes |-> prg_size_bytes_of(prg_size_16kb),
         chr_start |-> 16 + trainer_size_bytes + trainer_size_bytes,
         chr_size_bytes |-> chr_size_8kb * 8 * KB,
         mapper |-> BitOr(BitAnd(flags7, 240), ShiftRight(flags6, 4)),
         mirroring |-> mirroring_of(flags6),
         extra_ram |-> BitAnd(flags6, 2) # 0]

\* value of ines_header before the header is decoded
NoHeader ==
    [trainer_start |-> 0, trainer_size_bytes |-> 0, prg_start |-> 0,
     prg_size_bytes |-> 0, chr_start |-> 0, chr_size_bytes |-> 0,
     mapper |-> 0, mirroring |-> "", extra_ram |-> FALSE]

(***************************************************************************)
(* cdl_to_blocks and indexed_cdl_byte_to_cdl_chunk.                        *)
(***************************************************************************)
\* list(iterable): the elements, materialised
List(s) == SubSeq(s, 1, Len(s))

\* list(enumerate(cdl)): pairs <<index, byte>>, index from 0
Enumerate(cdl_bytes) == List([i \in 1 .. Len(cdl_bytes) |-> <<i - 1, cdl_bytes[i]>>])

\* the whole byte as the key, the mask left out
GroupKey_Unmasked(indexed_byte) == indexed_byte[2]

\* the key function handed to groupby
GroupKey(indexed_byte) == BitAnd(indexed_byte[2], PRG_CODE_OR_DATA)

\* itertools.groupby(seq, key): a new group starts at the first element and at
\* every element whose key differs from the key of the element before it;
\* each group is <<key, elements of the group>>
GroupBy(seq) ==
    LET IsStart(i) == i = 1 \/ GroupKey(seq[i]) # GroupKey(seq[i - 1])
        starts == SelectSeq([i \in 1 .. Len(seq) |-> i], IsStart)
        last(g) == IF g = Len(starts) THEN Len(seq) ELSE starts[g + 1] - 1
    IN  [g \in 1 .. Len(starts) |->
            <<GroupKey(seq[starts[g]]), SubSeq(seq, starts[g], last(g))>>]

\* the data bit tested before the code bit
byte_type_of_DataFirst(byte) ==
    IF BitAnd(byte, PRG_DATA) # 0 THEN CdlByteType_DATA
    ELSE IF BitAnd(byte, PRG_CODE) # 0 THEN CdlByteType_CODE
    ELSE CdlByteType_UNACCESSED

\* the end of a group taken from its first element
indexed_cdl_byte_to_cdl_chunk_EndIsStart(indexed_cdl_byte_group) ==
    [rom_address_start |-> indexed_cdl_byte_group[2][1][1],
     rom_address_end |-> indexed_cdl_byte_group[2][1][1],
     byte_type |->
        IF BitAnd(indexed_cdl_byte_group[1], PRG_CODE) # 0 THEN CdlByteType_CODE
        ELSE IF BitAnd(indexed_cdl_byte_group[1], PRG_DATA) # 0 THEN CdlByteType_DATA
        ELSE CdlByteType_UNACCESSED]

byte_type_of(byte) ==
    IF BitAnd(byte, PRG_CODE) # 0 THEN CdlByteType_CODE
    ELSE IF BitAnd(byte, PRG_DATA) # 0 THEN CdlByteType_DATA
    ELSE CdlByteType_UNACCESSED

indexed_cdl_byte_to_cdl_chunk(indexed_cdl_byte_group) ==
    LET byte == indexed_cdl_byte_group[1]
        indexed_cdl_bytes == indexed_cdl_byte_group[2]
        start_index == indexed_cdl_bytes[1][1]
        end_index == indexed_cdl_bytes[Len(indexed_cdl_bytes)][1]
    IN  [rom_address_start |-> start_index,
         rom_address_end |-> end_index,
         byte_type |-> byte_type_of(byte)]

cdl_to_blocks(cdl_bytes) ==
    LET cdl_indexed == Enumerate(cdl_bytes)
        cdl_block_groups == GroupBy(cdl_indexed)
    IN  [g \in 1 .. Len(cdl_block_groups) |->
            indexed_cdl_byte_to_cdl_chunk(cdl_block_groups[g])]

(***************************************************************************)
(* cdl_block_to_info_lines.  A line is a record of the fields the f-string *)
(* fills in; an address is the sequence of characters that the format      *)
(* specification 04x produces.                                             *)
(***************************************************************************)
HexDigits == <<"0", "1", "2", "3", "4", "5", "6", "7",
               "8", "9", "a", "b", "c", "d", "e", "f">>

RECURSIVE ToHex(_)
ToHex(n) ==
    IF n < 16 THEN <<HexDigits[n + 1]>>
    ELSE ToHex(n \div 16) \o <<HexDigits[(n % 16) + 1]>>

RECURSIVE ZeroPad(_, _)
ZeroPad(digits, width) ==
    IF Len(digits) >= width THEN digits ELSE ZeroPad(<<"0">> \o digits, width)

\* the address cut to 16 bits before it is formatted
Format04x_Wrap16(n) == ZeroPad(ToHex(n % 65536), 4)

\* format(n, "04x")
Format04x(n) == ZeroPad(ToHex(n), 4)

label_info_of(cdl_block) ==
    IF cdl_block.byte_type = CdlByteType_UNACCESSED
       \/ cdl_block.byte_type = CdlByteType_DATA
    THEN <<[line |-> "LABEL",
            ADDR |-> Format04x(AddressBase + cdl_block.rom_address_start),
            NAME |-> <<"$">> \o Format04x(AddressBase + cdl_block.rom_address_start),
            COMMENT |-> cdl_block.byte_type]>>
    ELSE <<>>

range_info_of(cdl_block) ==
    LET range_type == IF cdl_block.byte_type = CdlByteType_CODE
                      THEN "CODE" ELSE "BYTETABLE"
    IN  <<[line |-> "RANGE",
           START |-> Format04x(AddressBase + cdl_block.rom_address_start),
           END |-> Format04x(AddressBase + cdl_block.rom_address_end),
           TYPE |-> range_type]>>

\* the range line put before the label line
cdl_block_to_info_lines_RangeFirst(cdl_block) ==
    range_info_of(cdl_block) \o label_info_of(cdl_block)

cdl_block_to_info_lines(cdl_block) ==
    label_info_of(cdl_block) \o range_info_of(cdl_block)

\* chain(*map(cdl_block_to_info_lines, cdl_blocks))
RECURSIVE ChainInfoLines(_)
ChainInfoLines(blocks) ==
    IF blocks = <<>> THEN <<>>
    ELSE cdl_block_to_info_lines(Head(blocks)) \o ChainInfoLines(Tail(blocks))

\* '\n'.join(lines)
RECURSIVE JoinLines(_)
JoinLines(lines) ==
    IF lines = <<>> THEN <<>>
    ELSE IF Len(lines) = 1 THEN <<lines[1]>>
    ELSE <<lines[1], "\n">> \o JoinLines(Tail(lines))

\* what print(text) writes: the text and a newline
PrintOut(text) == text \o <<"\n">>

(***************************************************************************)
(* Files.                                                                  *)
(***************************************************************************)
\* the bytes of a CDL file given as runs
RECURSIVE Expand(_)
Expand(runs) ==
    IF runs = <<>> THEN <<>>
    ELSE [i \in 1 .. Head(runs).count |-> Head(runs).byte] \o Expand(Tail(runs))

RECURSIVE FileLength(_)
FileLength(runs) ==
    IF runs = <<>> THEN 0 ELSE Head(runs).count + FileLength(Tail(runs))

\* the first INES_HEADER_LENGTH bytes of an iNES file
HeaderBytes(prg_size_16kb, chr_size_8kb, flags6, flags7) ==
    <<78, 69, 83, 26, prg_size_16kb, chr_size_8kb, flags6, flags7,
      0, 0, 0, 0, 0, 0, 0, 0>>

(***************************************************************************)
(* The inputs explored.                                                    *)
(***************************************************************************)
SeqsUpTo(S, n) == UNION {[1 .. k -> S] : k \in 0 .. n}

\* CDL files written byte by byte
ByteRuns(S, n) ==
    {[i \in 1 .. Len(s) |-> [byte |-> s[i], count |-> 1]] : s \in SeqsUpTo(S, n)}

\* unaccessed, code, data, code and data, data with the PCM audio bit
CdlBytes == {0, 1, 2, 3, 66}
FillBytes == {0, 3}
TailBytes == {0, 1, 66}
PairTailBytes == {0, 1}

\* one byte short of a 16KB bank
LongRun == 16 * KB - 1

ByteRun(b) == [byte |-> b, count |-> 1]

ShortCdlFiles == ByteRuns(CdlBytes, MaxLen)

\* files around the size of one 16KB bank
LongCdlFiles ==
    {<<[byte |-> f, count |-> LongRun]>> \o t :
        f \in FillBytes, t \in ByteRuns(TailBytes, MaxTail)}

PairCdlFiles ==
    {<<[byte |-> 0, count |-> LongRun]>> \o t : t \in ByteRuns(PairTailBytes, MaxTail)}

\* a second trace for the same ROM: the same file, one byte longer, one byte
\* shorter, or with another last byte
Variants(a) ==
    {a}
    \cup {a \o <<ByteRun(b)>> : b \in PairTailBytes}
    \cup {SubSeq(a, 1, Len(a) - 1) \o t : t \in {<<>>, <<ByteRun(2)>>}}

PipelineHeaders == {HeaderBytes(u, 1, 0, 0) : u \in {0, 1, 2}}

ShortHeader == SubSeq(HeaderBytes(1, 1, 0, 0), 1, INES_HEADER_LENGTH - 1)

Invocation(h, c, r) == [ines_file |-> h, cdl_file |-> c, readable |-> r]

Idle ==
    /\ pc = "start"
    /\ ines = <<>>
    /\ cdl = <<>>
    /\ ines_header = NoHeader
    /\ cdl_blocks = <<>>
    /\ info_lines = <<>>
    /\ stdout = <<>>
    /\ error = "none"

Init ==
    /\ Idle
    /\ history = <<>>
    /\ \/ \E h \in PipelineHeaders \cup {ShortHeader}, c \in ShortCdlFiles :
            pending = <<Invocation(h, c, TRUE)>>
       \/ \E c \in ShortCdlFiles :
            pending = <<Invocation(HeaderBytes(1, 1, 0, 0), c, FALSE)>>
       \/ \E h \in PipelineHeaders, c \in LongCdlFiles :
            pending = <<Invocation(h, c, TRUE)>>
       \/ \E h \in {HeaderBytes(u, 1, 0, 0) : u \in {1, 2}}, a \in PairCdlFiles :
            \E b \in Variants(a) :
            pending = <<Invocation(h, a, TRUE), Invocation(h, b, TRUE)>>

\* every value of the PRG size byte and of flags6
InitHeader ==
    /\ Idle
    /\ history = <<>>
    /\ \/ \E u \in Byte, f6 \in Byte :
            pending = <<Invocation(HeaderBytes(u, 1, f6, 0), <<>>, TRUE)>>
       \/ \E n \in 0 .. INES_HEADER_LENGTH - 1 :
            pending = <<Invocation(SubSeq(HeaderBytes(1, 1, 9, 0), 1, n), <<>>, TRUE)>>

(***************************************************************************)
(* main()                                                                  *)
(***************************************************************************)
\* lines 126-135: read both files; an OSError ends the program with a message
Main_Read ==
    /\ pc = "start"
    /\ pending # <<>>
    /\ pending' = Tail(pending)
    /\ IF Head(pending).readable
       THEN /\ cdl' = Head(pending).cdl_file
            /\ ines' = ReadUpTo(Head(pending).ines_file, INES_HEADER_LENGTH)
            /\ pc' = "read"
            /\ error' = error
       ELSE /\ error' = "Error reading the file."
            /\ pc' = "exit"
            /\ UNCHANGED <<cdl, ines>>
    /\ UNCHANGED <<ines_header, cdl_blocks, info_lines, stdout, history>>

\* line 137: struct.error is not caught and ends the program
Main_Decode ==
    /\ pc = "read"
    /\ IF UnpackOk(ines)
       THEN /\ ines_header' = ines_header_decode(ines)
            /\ pc' = "decoded"
            /\ error' = error
       ELSE /\ error' = "struct.error"
            /\ pc' = "exit"
            /\ UNCHANGED ines_header
    /\ UNCHANGED <<pending, ines, cdl, cdl_blocks, info_lines, stdout, history>>

\* line 139
Main_Blocks ==
    /\ pc = "decoded"
    /\ cdl_blocks' = cdl_to_blocks(SliceTo(Expand(cdl), ines_header.prg_size_bytes))
    /\ pc' = "blocks"
    /\ UNCHANGED <<pending, ines, cdl, ines_header, info_lines, stdout, error, history>>

\* line 141
Main_InfoLines ==
    /\ pc = "blocks"
    /\ info_lines' = ChainInfoLines(cdl_blocks)
    /\ pc' = "lines"
    /\ UNCHANGED <<pending, ines, cdl, ines_header, cdl_blocks, stdout, error, history>>

\* line 143
Main_Print ==
    /\ pc = "lines"
    /\ stdout' = PrintOut(JoinLines(info_lines))
    /\ pc' = "exit"
    /\ UNCHANGED <<pending, ines, cdl, ines_header, cdl_blocks, info_lines, error, history>>

\* the process ends; its outcome is recorded and the next invocation starts
\* from a fresh process
Main_Exit ==
    /\ pc = "exit"
    /\ history' = Append(history,
                         [ines |-> ines, cdl |-> cdl, ines_header |-> ines_header,
                          stdout |-> stdout, error |-> error])
    /\ pc' = "start"
    /\ ines' = <<>>
    /\ cdl' = <<>>
    /\ ines_header' = NoHeader
    /\ cdl_blocks' = <<>>
    /\ info_lines' = <<>>
    /\ stdout' = <<>>
    /\ error' = "none"
    /\ UNCHANGED pending

Next ==
    \/ Main_Read
    \/ Main_Decode
    \/ Main_Blocks
    \/ Main_InfoLines
    \/ Main_Print
    \/ Main_Exit

Spec == Init /\ [][Next]_vars

SpecHeader == InitHeader /\ [][Next]_vars

(***************************************************************************)
(* Vocabulary of the properties.  None of it is used by the actions.       *)
(***************************************************************************)
Bit(b, n) == (b \div (2 ^ n)) % 2

\* the classification of one CDL byte, read off its bits
Classification(b) ==
    IF Bit(b, 0) = 1 THEN "Code"
    ELSE IF Bit(b, 1) = 1 THEN "Data"
    ELSE "Unaccessed"

Min(a, b) == IF a < b THEN a ELSE b

RECURSIVE ByteAt(_, _)
\* byte number i (from 1) of a file given as runs
ByteAt(runs, i) ==
    IF i <= Head(runs).count THEN Head(runs).byte
    ELSE ByteAt(Tail(runs), i - Head(runs).count)

\* the first n bytes of a file given as runs (all of it when it is shorter)
FirstBytes(runs, n) == List([i \in 1 .. Min(n, FileLength(runs)) |-> ByteAt(runs, i)])

\* the byte sequence that the running invocation hands to cdl_to_blocks
Passed == FirstBytes(cdl, ines_header.prg_size_bytes)
PassedLen == Min(ines_header.prg_size_bytes, FileLength(cdl))

\* the number an address string denotes, read as lowercase hexadecimal
RECURSIVE HexValue(_)
HexValue(digits) ==
    IF digits = <<>> THEN 0
    ELSE 16 * HexValue(SubSeq(digits, 1, Len(digits) - 1))
         + ((CHOOSE d \in 1 .. 16 : HexDigits[d] = digits[Len(digits)]) - 1)

IsLowerHex(digits) ==
    \A i \in 1 .. Len(digits) : \E d \in 1 .. 16 : HexDigits[d] = digits[i]

\* number of lines that the blocks before block k account for
RECURSIVE LinesBefore(_, _)
LinesBefore(blocks, k) ==
    IF k = 1 THEN 0
    ELSE LinesBefore(blocks, k - 1)
         + (IF blocks[k - 1].byte_type = "Code" THEN 1 ELSE 2)

\* the RANGE line of block k in info_lines
RangeLineAt(k) ==
    LinesBefore(cdl_blocks, k) + (IF cdl_blocks[k].byte_type = "Code" THEN 1 ELSE 2)

(***************************************************************************)
(* C1.  The ranges returned for a non-empty sequence of N bytes are in     *)
(* ascending order, start at 0, end at N-1, have start <= end, follow one  *)
(* another without gap or overlap, and so hold every offset exactly once.  *)
(***************************************************************************)
C1_RangesPartitionInput ==
    (pc = "blocks" /\ PassedLen > 0) =>
        /\ Len(cdl_blocks) >= 1
        /\ cdl_blocks[1].rom_address_start = 0
        /\ cdl_blocks[Len(cdl_blocks)].rom_address_end = PassedLen - 1
        /\ \A k \in 1 .. Len(cdl_blocks) :
              cdl_blocks[k].rom_address_start <= cdl_blocks[k].rom_address_end
        /\ \A k \in 2 .. Len(cdl_blocks) :
              cdl_blocks[k].rom_address_start = cdl_blocks[k - 1].rom_address_end + 1
        /\ \A i \in 0 .. PassedLen - 1 :
              Cardinality({k \in 1 .. Len(cdl_blocks) :
                              /\ cdl_blocks[k].rom_address_start <= i
                              /\ i <= cdl_blocks[k].rom_address_end}) = 1

C1_Witness ==
    /\ pc = "blocks"
    /\ Len(cdl_blocks) = 3
    /\ cdl_blocks[2].rom_address_start < cdl_blocks[2].rom_address_end
    /\ cdl_blocks[3].rom_address_end = PassedLen - 1

(***************************************************************************)
(* C2.  A non-empty sequence whose bytes all have one classification gives *)
(* exactly one range [0, N-1] of that classification; no two adjacent      *)
(* ranges have the same kind.                                              *)
(***************************************************************************)
C2_OneRangePerClassification ==
    (pc = "blocks" /\ PassedLen > 0) =>
        /\ LET bytes == Passed
           IN  (\A i \in 1 .. PassedLen : Classification(bytes[i]) = Classification(bytes[1]))
                  => cdl_blocks = <<[rom_address_start |-> 0,
                                     rom_address_end |-> PassedLen - 1,
                                     byte_type |-> Classification(bytes[1])]>>
        /\ \A k \in 2 .. Len(cdl_blocks) :
              cdl_blocks[k].byte_type # cdl_blocks[k - 1].byte_type

(***************************************************************************)
(* C3.  A CDL file that is empty, or shorter than prg_size_bytes, makes    *)
(* the run fail with EmptyInput and write nothing.                         *)
(***************************************************************************)
C3_ShortCdlFailsWithEmptyInput ==
    (pc = "exit" /\ ines_header # NoHeader
        /\ FileLength(cdl) < ines_header.prg_size_bytes) =>
        /\ error = "EmptyInput"
        /\ stdout = <<>>

(***************************************************************************)
(* C4.  The lines are the lines of each range in range order: a Code range *)
(* gives one RANGE line of TYPE CODE; a Data or Unaccessed range gives a   *)
(* LABEL line whose COMMENT is the kind, then a RANGE line of TYPE         *)
(* BYTETABLE.                                                              *)
(***************************************************************************)
C4_LinesFollowRanges ==
    pc = "lines" =>
        /\ Len(info_lines) = LinesBefore(cdl_blocks, Len(cdl_blocks) + 1)
        /\ \A k \in 1 .. Len(cdl_blocks) :
              LET block == cdl_blocks[k]
                  first == info_lines[LinesBefore(cdl_blocks, k) + 1]
                  range == info_lines[RangeLineAt(k)]
              IN  /\ range.line = "RANGE"
                  /\ HexValue(range.START) = AddressBase + block.rom_address_start
                  /\ HexValue(range.END) = AddressBase + block.rom_address_end
                  /\ IF block.byte_type = "Code"
                     THEN /\ range.TYPE = "CODE"
                          /\ first = range
                     ELSE /\ range.TYPE = "BYTETABLE"
                          /\ first.line = "LABEL"
                          /\ first.COMMENT = block.byte_type
                          /\ first.COMMENT \in {"Data", "Unaccessed"}
                          /\ HexValue(first.ADDR) = AddressBase + block.rom_address_start

C4_Witness ==
    /\ pc = "lines"
    /\ Len(cdl_blocks) = 3
    /\ Len(info_lines) = 5
    /\ cdl_blocks[1].byte_type = "Data"
    /\ cdl_blocks[2].byte_type = "Code"
    /\ cdl_blocks[3].byte_type = "Unaccessed"

(***************************************************************************)
(* C5.  Every address of a LABEL or RANGE line is 0xC000 + the offset of   *)
(* its range.  As first stated: written with exactly 4 lowercase hex       *)
(* digits.  As amended: written in lowercase hex with at least 4 digits,   *)
(* and with exactly 4 precisely when 0xC000 + offset <= 0xFFFF.            *)
(***************************************************************************)
AddressFields(k) ==
    LET range == info_lines[RangeLineAt(k)]
        label == info_lines[LinesBefore(cdl_blocks, k) + 1]
    IN  {<<range.START, cdl_blocks[k].rom_address_start>>,
         <<range.END, cdl_blocks[k].rom_address_end>>}
        \cup (IF cdl_blocks[k].byte_type = "Code" THEN {}
              ELSE {<<label.ADDR, cdl_blocks[k].rom_address_start>>,
                    <<Tail(label.NAME), cdl_blocks[k].rom_address_start>>})

C5_AddressesHaveFourDigits ==
    pc = "lines" =>
        \A k \in 1 .. Len(cdl_blocks) : \A f \in AddressFields(k) :
            /\ HexValue(f[1]) = AddressBase + f[2]
            /\ IsLowerHex(f[1])
            /\ Len(f[1]) = 4

C5_AddressesHaveAtLeastFourDigits ==
    pc = "lines" =>
        \A k \in 1 .. Len(cdl_blocks) : \A f \in AddressFields(k) :
            /\ HexValue(f[1]) = AddressBase + f[2]
            /\ IsLowerHex(f[1])
            /\ Len(f[1]) >= 4
            /\ Len(f[1]) = 4 <=> AddressBase + f[2] <= 65535
            /\ Len(f[1]) = 4 <=> f[2] < 16 * KB

C5_Witness ==
    /\ pc = "lines"
    /\ Len(cdl_blocks) = 3
    /\ cdl_blocks[3].byte_type = "Data"
    /\ cdl_blocks[3].rom_address_start = 16 * KB
    /\ cdl_blocks[1].byte_type = "Code"
    /\ info_lines[1].START = <<"c", "0", "0", "0">>
    /\ info_lines[1].END = <<"f", "f", "f", "e">>
    /\ info_lines[LinesBefore(cdl_blocks, 3) + 1].line = "LABEL"
    /\ info_lines[LinesBefore(cdl_blocks, 3) + 1].ADDR = <<"1", "0", "0", "0", "0">>

(***************************************************************************)
(* C6.  Two runs with the same header whose CDL files agree on the first   *)
(* prg_size_bytes bytes write the same output, and no range ends at or     *)
(* beyond prg_size_bytes.                                                  *)
(***************************************************************************)
C6_OutputDependsOnPrgPrefix ==
    /\ pc = "blocks" =>
          \A k \in 1 .. Len(cdl_blocks) :
              cdl_blocks[k].rom_address_end < ines_header.prg_size_bytes
    /\ (Len(history) = 2 /\ history[1].error = "none" /\ history[2].error = "none"
           /\ history[1].ines_header = history[2].ines_header
           /\ FirstBytes(history[1].cdl, history[1].ines_header.prg_size_bytes)
              = FirstBytes(history[2].cdl, history[2].ines_header.prg_size_bytes))
          => history[1].stdout = history[2].stdout

C6_Witness ==
    /\ Len(history) = 2
    /\ history[1].error = "none"
    /\ history[2].error = "none"
    /\ history[1].ines_header = history[2].ines_header
    /\ FileLength(history[1].cdl) > history[1].ines_header.prg_size_bytes
    /\ FileLength(history[2].cdl) = FileLength(history[1].cdl)
    /\ FirstBytes(history[1].cdl, history[1].ines_header.prg_size_bytes)
       = FirstBytes(history[2].cdl, history[2].ines_header.prg_size_bytes)
    /\ ByteAt(history[1].cdl, FileLength(history[1].cdl))
       # ByteAt(history[2].cdl, FileLength(history[1].cdl))
    /\ history[1].stdout = history[2].stdout

(***************************************************************************)
(* C7.  prg_size_bytes is positive and a multiple of 16KB: 4194304 for a   *)
(* PRG size byte of 0, u * 16384 for a byte u in 1..255.                   *)
(***************************************************************************)
C7_PrgSizeBytes ==
    pc = "decoded" =>
        /\ ines_header.prg_size_bytes > 0
        /\ ines_header.prg_size_bytes % 16384 = 0
        /\ ines[5] = 0 => ines_header.prg_size_bytes = 4194304
        /\ ines[5] # 0 => ines_header.prg_size_bytes = ines[5] * 16384

C7_Witness ==
    /\ pc = "decoded"
    /\ ines[5] = 0
    /\ ines_header.prg_size_bytes = 4194304

(***************************************************************************)
(* C8.  mirroring is Four Screen when bit 3 of flags6 is set, else         *)
(* Vertical when bit 0 is set, else Horizontal.                            *)
(***************************************************************************)
C8_MirroringPriority ==
    pc = "decoded" =>
        ines_header.mirroring =
            (IF Bit(ines[7], 3) = 1 THEN "Four Screen"
             ELSE IF Bit(ines[7], 0) = 1 THEN "Vertical"
             ELSE "Horizontal")

C8_Witness ==
    /\ pc = "decoded"
    /\ ines[7] = 9
    /\ ines_header.mirroring = "Four Screen"

(***************************************************************************)
(* C9.  A range boundary lies between offsets i-1 and i exactly when the   *)
(* two low bits of byte i differ from those of byte i-1; the bytes of one  *)
(* range share their two low bits, adjacent ranges differ in them, and     *)
(* bits 2..7 play no part.                                                 *)
(***************************************************************************)
BoundaryBefore(i) ==
    \E k \in 2 .. Len(cdl_blocks) :
        /\ cdl_blocks[k].rom_address_start = i
        /\ cdl_blocks[k - 1].rom_address_end = i - 1

C9_BoundaryIffKeyChanges ==
    (pc = "blocks" /\ PassedLen > 0) =>
        LET bytes == Passed
        IN  /\ \A i \in 1 .. PassedLen - 1 :
                  BoundaryBefore(i) <=> (bytes[i + 1] % 4 # bytes[i] % 4)
            /\ \A k \in 1 .. Len(cdl_blocks) :
                  \A i \in cdl_blocks[k].rom_address_start .. cdl_blocks[k].rom_address_end :
                      bytes[i + 1] % 4 = bytes[cdl_blocks[k].rom_address_start + 1] % 4
            /\ \A k \in 2 .. Len(cdl_blocks) :
                  bytes[cdl_blocks[k].rom_address_start + 1] % 4
                  # bytes[cdl_blocks[k - 1].rom_address_start + 1] % 4

C9_Witness ==
    /\ pc = "blocks"
    /\ PassedLen = 3
    /\ Passed = <<2, 66, 3>>
    /\ Len(cdl_blocks) = 2
    /\ cdl_blocks[2].rom_address_start = 2

(***************************************************************************)
(* C10.  The kind of a range is the classification of every byte in it:    *)
(* Code when bit 0 of the byte is set, else Data when bit 1 is set, else   *)
(* Unaccessed.                                                             *)
(***************************************************************************)
C10_KindFitsEveryByte ==
    pc = "blocks" =>
        LET bytes == Passed
        IN  \A k \in 1 .. Len(cdl_blocks) :
                \A i \in cdl_blocks[k].rom_address_start .. cdl_blocks[k].rom_address_end :
                    cdl_blocks[k].byte_type = Classification(bytes[i + 1])

C10_Witness ==
    /\ pc = "blocks"
    /\ Passed = <<3, 66, 2>>
    /\ Len(cdl_blocks) = 2
    /\ cdl_blocks[1].byte_type = "Code"
    /\ cdl_blocks[2].byte_type = "Data"

====
